---- MODULE Spec2Model ----
(***************************************************************************)
(* A model of zilt (src/src/zilt.ts): lazy iterators built from ES6        *)
(* generators.  A generator object is a record holding the generator's     *)
(* local variables and its position; next() on it is the operator Step.    *)
(* The user calls free functions and methods (the ...Call actions), which  *)
(* build generator objects, and consumers (collect, reduce, count), whose  *)
(* loops pull one element per step.                                        *)
(***************************************************************************)
EXTENDS Integers, Sequences, FiniteSets, TLC

\* ---------------------------------------------------------------- bounds
MaxLen == 3
MaxOthers == 2
MaxNum == 3
Slack == 3
MaxWidth == 2
MaxCalls == 2

\* The value read from the result of next() on an exhausted iterator, and
\* the value of a variable never assigned: JavaScript's undefined.
Undef == -1

\* Infinity, the default of cycle's count and of slice's end.
Infinity == 1000000
Minus(a, b) == IF a = Infinity THEN Infinity ELSE a - b

Vals == {0, 1}
JsVals == Vals \cup {Undef}

\* Input arrays: the receiver's array holds arbitrary values; the arrays
\* passed as arguments hold values that name their array and position.
Arrays == UNION {[1..n -> Vals] : n \in 0..MaxLen}
Tagged(j, n) == [i \in 1..n |-> 10 * j + i]
Lengths(k) == UNION {[1..n -> 0..MaxLen] : n \in 0..k}
StepLimit == (MaxNum + 1) * (MaxLen + 2) + Slack

\* Input arrays whose elements are numbers or arrays, nested up to two deep.
\* Such an element is a record: leaf says that it is a number (not iterable),
\* v is the number, items the elements of the array.
Leaf(v) == [leaf |-> TRUE, v |-> v, items |-> <<>>]
Arr(items) == [leaf |-> FALSE, v |-> Undef, items |-> items]
Leaves == {Leaf(v) : v \in Vals}
Nested1 == Leaves \cup {Arr(a) : a \in UNION {[1..n -> Leaves] : n \in 0..MaxWidth}}
Nested2 == Nested1 \cup {Arr(<<x>>) : x \in Nested1}
NestedArrays == UNION {[1..n -> Nested2] : n \in 0..2}

\* User callbacks.  A predicate is any function of the element (the index the
\* code also passes is ignored by these predicates); the fold and map
\* callbacks are fixed non-commutative functions.
Preds == [JsVals -> BOOLEAN]
CallPred(p, value, index) == p[IF value \in JsVals THEN value ELSE Undef]
UserFold(a, b) == (2 * a + b + 2) % 7
UserMap(fn, v, index) == IF fn = "toPair" THEN <<v, v + 2>> ELSE v + 2
Inits == {0, 1}

Min(a, b) == IF a < b THEN a ELSE b
MinOf(S) == CHOOSE x \in S : \A y \in S : x <= y

VARIABLES
    srcs,      \* the arrays the user passed, in order of appearance
    it,        \* the iterable the current ZiltIterator wraps
    pulls,     \* pulls[i]: elements obtained so far from srcs[i]
    opens,     \* opens[i]: iterators opened so far on srcs[i]
    log,       \* user callbacks invoked so far, in order
    ops,       \* the calls that built the current ZiltIterator
    pc,        \* "idle", "built", a consumer's loop, "returned", "thrown"
    consumer,  \* the consumer called, with its arguments
    acc,       \* reduce's accumulator
    out,       \* the array collect() is filling
    ret,       \* the value a consumer returned
    steps,     \* next() calls the consumer made
    past       \* the consumer calls already finished on the same object

vars == <<srcs, it, pulls, opens, log, ops, pc, consumer, acc, out, ret, steps, past>>

Nil == [k |-> "none"]
NoConsumer == [kind |-> "none"]

\* The mutable world a generator's step reads and changes.
Env == [srcs |-> srcs, pulls |-> pulls, opens |-> opens, log |-> log]

Res(g, e, st, v) == [it |-> g, e |-> e, st |-> st, v |-> v]
IsOver(g) == g.st \in {"done", "closed"}
Logged(e, fn, arg) == [e EXCEPT !.log = Append(@, [fn |-> fn, arg |-> arg])]

RECURSIVE Step(_, _)
RECURSIVE NextOf(_, _)
RECURSIVE Close(_)
RECURSIVE NextAll(_, _)

\* new ZiltIterator(array): generator() and [Symbol.iterator]() both run
\* "for (const item of iterable) yield item", which opens the array's
\* iterator at the first next() and passes every element through.
ArrayIter(i) == [k |-> "arr", src |-> i, pos |-> 0, st |-> "new"]

ArrayStep(g, e) ==
    LET a == e.srcs[g.src]
        opened == IF g.st = "new" THEN [e EXCEPT !.opens[g.src] = @ + 1] ELSE e
    IN  IF IsOver(g) THEN Res(g, e, "done", Undef)
        ELSE IF g.pos < Len(a)
        THEN Res([g EXCEPT !.pos = @ + 1, !.st = "open"],
                 [opened EXCEPT !.pulls[g.src] = @ + 1], "yield", a[g.pos + 1])
        ELSE Res([g EXCEPT !.st = "done"], opened, "done", Undef)

\* it.next(): runs the generator to its next yield or to its end.
NextOf(g, e) ==
    LET r == Step(g, e)
    IN  IF r.st = "busy" THEN NextOf(r.it, r.e) ELSE r

\* iters.map((it) => it.next()): next() on every iterator, in order,
\* whether or not an earlier one is done.
NextAll(gs, e) ==
    IF gs = <<>> THEN [its |-> <<>>, e |-> e, res |-> <<>>]
    ELSE LET r == NextOf(Head(gs), e)
             rest == NextAll(Tail(gs), r.e)
         IN  [its |-> <<r.it>> \o rest.its, e |-> rest.e,
              res |-> <<[done |-> r.st = "done", value |-> r.v]>> \o rest.res]

\* zip(...iterables) and ZiltIterator.zip(...iterables): the generator body.
ZipIter(free, gs) == [k |-> "zip", free |-> free, inners |-> gs, st |-> "new"]

\* A zip that goes on while some input still has elements.
ZipStepLongest(g, e) ==
    IF IsOver(g) THEN Res(g, e, "done", Undef)
    ELSE LET n == NextAll(g.inners, e)
         IN  IF \E i \in 1..Len(n.res) : ~n.res[i].done
             THEN Res([g EXCEPT !.inners = n.its, !.st = "open"], n.e, "yield",
                      [i \in 1..Len(n.res) |-> n.res[i].value])
             ELSE Res([g EXCEPT !.inners = n.its, !.st = "done"], n.e, "done", Undef)

ZipStep(g, e) ==
    IF IsOver(g) THEN Res(g, e, "done", Undef)
    ELSE IF g.free /\ g.st = "new" /\ g.inners = <<>>
    THEN Res([g EXCEPT !.st = "done"], e, "done", Undef)
    ELSE LET n == NextAll(g.inners, e)
         IN  IF \A i \in 1..Len(n.res) : ~n.res[i].done
             THEN Res([g EXCEPT !.inners = n.its, !.st = "open"], n.e, "yield",
                      [i \in 1..Len(n.res) |-> n.res[i].value])
             ELSE Res([g EXCEPT !.inners = n.its, !.st = "done"], n.e, "done", Undef)

\* What a generator that runs "for (const item of previous())" does with
\* an inner result it only hands on.
Through(g, r) == Res([g EXCEPT !.inner = r.it, !.st = IF r.st = "done" THEN "done" ELSE "open"],
                     r.e, r.st, r.v)

\* inspect(func); fn names the callback in the log.
InspectNamed(fn, inner) == [k |-> "inspect", fn |-> fn, inner |-> inner, st |-> "new"]
InspectIter(inner) == InspectNamed("inspect", inner)

\* An inspect that yields what func returned, which is undefined.
InspectStepYieldsResult(g, e) ==
    IF IsOver(g) THEN Res(g, e, "done", Undef)
    ELSE LET r == Step(g.inner, e)
         IN  IF r.st = "yield"
             THEN Through(g, [r EXCEPT !.e = Logged(r.e, g.fn, r.v), !.v = Undef])
             ELSE Through(g, r)

InspectStep(g, e) ==
    IF IsOver(g) THEN Res(g, e, "done", Undef)
    ELSE LET r == Step(g.inner, e)
         IN  IF r.st = "yield"
             THEN Through(g, [r EXCEPT !.e = Logged(r.e, g.fn, r.v)])
             ELSE Through(g, r)

\* map(func)
MapIter(fn, inner) == [k |-> "map", fn |-> fn, index |-> 0, inner |-> inner, st |-> "new"]

MapStep(g, e) ==
    IF IsOver(g) THEN Res(g, e, "done", Undef)
    ELSE LET r == Step(g.inner, e)
         IN  IF r.st = "yield"
             THEN Res([g EXCEPT !.inner = r.it, !.index = @ + 1, !.st = "open"],
                      Logged(r.e, g.fn, r.v), "yield", UserMap(g.fn, r.v, g.index))
             ELSE Through(g, r)

\* filter(func): an element the predicate rejects sends the loop round again.
FilterIter(p, inner) == [k |-> "filter", pred |-> p, index |-> 0, inner |-> inner, st |-> "new"]

FilterStep(g, e) ==
    IF IsOver(g) THEN Res(g, e, "done", Undef)
    ELSE LET r == Step(g.inner, e)
         IN  IF r.st = "yield"
             THEN IF CallPred(g.pred, r.v, g.index)
                  THEN Res([g EXCEPT !.inner = r.it, !.index = @ + 1, !.st = "open"],
                           Logged(r.e, "pred", r.v), "yield", r.v)
                  ELSE Res([g EXCEPT !.inner = r.it, !.st = "open"],
                           Logged(r.e, "pred", r.v), "busy", Undef)
             ELSE Through(g, r)

\* skip(num): the first next() runs "for (i < num) iter.next()".
RECURSIVE Discard(_, _, _)
Discard(g, e, n) ==
    IF n = 0 THEN [it |-> g, e |-> e]
    ELSE LET r == NextOf(g, e) IN Discard(r.it, r.e, n - 1)

SkipIter(n, inner) == [k |-> "skip", num |-> n, inner |-> inner, st |-> "new"]

\* A skip whose loop runs "i <= num": one element too many.
SkipStepOneMore(g, e) ==
    IF IsOver(g) THEN Res(g, e, "done", Undef)
    ELSE LET d == IF g.st = "new" THEN Discard(g.inner, e, g.num + 1)
                  ELSE [it |-> g.inner, e |-> e]
         IN  Through(g, Step(d.it, d.e))

SkipStep(g, e) ==
    IF IsOver(g) THEN Res(g, e, "done", Undef)
    ELSE LET d == IF g.st = "new" THEN Discard(g.inner, e, g.num)
                  ELSE [it |-> g.inner, e |-> e]
         IN  Through(g, Step(d.it, d.e))

\* take(num): the loop pulls an item and only then tests num === 0; the
\* break closes the iterator the loop runs over.
TakeIter(n, inner) == [k |-> "take", num |-> n, inner |-> inner, st |-> "new"]

TakeStep(g, e) ==
    IF IsOver(g) THEN Res(g, e, "done", Undef)
    ELSE LET r == Step(g.inner, e)
         IN  IF r.st = "yield"
             THEN IF g.num = 0
                  THEN Res([g EXCEPT !.inner = Close(r.it), !.st = "done"], r.e, "done", Undef)
                  ELSE Res([g EXCEPT !.inner = r.it, !.num = Minus(@, 1), !.st = "open"],
                           r.e, "yield", r.v)
             ELSE Through(g, r)

\* skipWhile(pred): st "new" before the first next(), "loop" inside
\* "while (pred(value, index))", "open" in the trailing for-of.
SkipWhileIter(p, inner) ==
    [k |-> "skipWhile", pred |-> p, value |-> Undef, index |-> 0, inner |-> inner, st |-> "new"]

SkipWhileStep(g, e) ==
    IF IsOver(g) THEN Res(g, e, "done", Undef)
    ELSE IF g.st = "new"
    THEN LET r == NextOf(g.inner, e)
         IN  Res([g EXCEPT !.inner = r.it, !.value = r.v, !.index = 0, !.st = "loop"],
                 r.e, "busy", Undef)
    ELSE IF g.st = "loop"
    THEN IF CallPred(g.pred, g.value, g.index)
         THEN LET r == NextOf(g.inner, Logged(e, "pred", g.value))
              IN  Res([g EXCEPT !.inner = r.it, !.value = r.v, !.index = @ + 1],
                      r.e, "busy", Undef)
         ELSE Res([g EXCEPT !.st = "open"], Logged(e, "pred", g.value), "yield", g.value)
    ELSE Through(g, Step(g.inner, e))

\* takeWhile(pred): value = iter.next().value, then the test of the while.
TakeWhileIter(p, inner) ==
    [k |-> "takeWhile", pred |-> p, value |-> Undef, index |-> 0, inner |-> inner, st |-> "new"]

TakeWhileStep(g, e) ==
    IF IsOver(g) THEN Res(g, e, "done", Undef)
    ELSE LET r == NextOf(g.inner, e)
             idx == IF g.st = "new" THEN 0 ELSE g.index + 1
             g1 == [g EXCEPT !.inner = r.it, !.value = r.v, !.index = idx]
         IN  IF CallPred(g.pred, r.v, idx)
             THEN Res([g1 EXCEPT !.st = "open"], Logged(r.e, "pred", r.v), "yield", r.v)
             ELSE Res([g1 EXCEPT !.st = "done"], Logged(r.e, "pred", r.v), "done", Undef)

\* The reducing callback: the user's, or the closure count() passes.
Fold(fn, a, b) == IF fn = "count" THEN a + 1 ELSE UserFold(a, b)
FoldLogged(e, fn, b) == IF fn = "count" THEN e ELSE Logged(e, "func", b)

\* accumulate(func, initializer): first is the result of the next() made
\* inside the accumulate call; the generator seeds acc from it.
AccumulateIter(hasInit, init, first, inner) ==
    [k |-> "accumulate", hasInit |-> hasInit, init |-> init, first |-> first,
     acc |-> Undef, inner |-> inner, st |-> "new"]

AccumulateStep(g, e) ==
    IF IsOver(g) THEN Res(g, e, "done", Undef)
    ELSE IF g.st = "new"
    THEN IF g.hasInit
         THEN LET a == UserFold(g.init, g.first.value)
              IN  Res([g EXCEPT !.acc = a, !.st = "open"],
                      Logged(e, "func", g.first.value), "yield", a)
         ELSE Res([g EXCEPT !.acc = g.first.value, !.st = "open"], e, "yield", g.first.value)
    ELSE LET r == Step(g.inner, e)
         IN  IF r.st = "yield"
             THEN LET a == UserFold(g.acc, r.v)
                  IN  Res([g EXCEPT !.inner = r.it, !.acc = a], Logged(r.e, "func", r.v),
                          "yield", a)
             ELSE Through(g, r)

\* chain(...iterables) and ZiltIterator.chain(...iterables): cur is the
\* iterable the nested for-of is on; the next one is opened when it ends.
ChainIter(gs) == [k |-> "chain", inners |-> gs, cur |-> 1, st |-> "new"]

\* "for (const it of iterables) for (const item of it) yield item", from
\* the iterable the loop is on: an iterable that ends hands over to the next.
RECURSIVE ChainLoop(_, _)
ChainLoop(g, e) ==
    IF g.cur > Len(g.inners) THEN Res([g EXCEPT !.st = "done"], e, "done", Undef)
    ELSE LET r == Step(g.inners[g.cur], e)
             g1 == [g EXCEPT !.inners[g.cur] = r.it, !.st = "open"]
         IN  IF r.st = "done" THEN ChainLoop([g1 EXCEPT !.cur = @ + 1], r.e)
             ELSE Res(g1, r.e, r.st, r.v)

\* A chain that ends with its first iterable.
ChainStepFirstOnly(g, e) ==
    IF IsOver(g) \/ g.inners = <<>> THEN Res([g EXCEPT !.st = "done"], e, "done", Undef)
    ELSE LET r == Step(g.inners[1], e)
         IN  Res([g EXCEPT !.inners[1] = r.it, !.st = IF r.st = "done" THEN "done" ELSE "open"],
                 r.e, r.st, r.v)

\* A chain whose first next() also calls next() on its last iterable.
ChainStepPrefetch(g, e) ==
    IF IsOver(g) THEN Res(g, e, "done", Undef)
    ELSE IF g.st = "new" /\ Len(g.inners) >= 2
    THEN LET p == Step(g.inners[Len(g.inners)], e)
         IN  ChainLoop([g EXCEPT !.inners[Len(g.inners)] = p.it], p.e)
    ELSE ChainLoop(g, e)

ChainStep(g, e) == IF IsOver(g) THEN Res(g, e, "done", Undef) ELSE ChainLoop(g, e)

\* once(value): a generator that yields value and ends.
OnceIter(v) == [k |-> "once", value |-> v, st |-> "new"]

OnceStep(g, e) ==
    IF IsOver(g) THEN Res(g, e, "done", Undef)
    ELSE IF g.st = "new" THEN Res([g EXCEPT !.st = "open"], e, "yield", g.value)
    ELSE Res([g EXCEPT !.st = "done"], e, "done", Undef)

\* range(start, end): "for (let i = start; i !== end; i += step) yield i"
\* with step = start < end ? 1 : -1.
RangeIter(start, end) ==
    [k |-> "range", i |-> start, end |-> end, step |-> IF start < end THEN 1 ELSE -1,
     st |-> "new"]

\* A range that includes its end.
RangeStepInclusive(g, e) ==
    IF IsOver(g) THEN Res(g, e, "done", Undef)
    ELSE IF g.st # "new" /\ g.i = g.end THEN Res([g EXCEPT !.st = "done"], e, "done", Undef)
    ELSE LET i == IF g.st = "new" THEN g.i ELSE g.i + g.step
         IN  Res([g EXCEPT !.i = i, !.st = "open"], e, "yield", i)

RangeStep(g, e) ==
    IF IsOver(g) THEN Res(g, e, "done", Undef)
    ELSE LET i == IF g.st = "new" THEN g.i ELSE g.i + g.step
         IN  IF i # g.end THEN Res([g EXCEPT !.i = i, !.st = "open"], e, "yield", i)
             ELSE Res([g EXCEPT !.i = i, !.st = "done"], e, "done", Undef)

\* cycle(count): st "first" in the for-of over previous(), "while" at the
\* test of "while (--count)", "replay" in the for-of over buffered.
CycleIter(count, inner) ==
    [k |-> "cycle", count |-> count, buffered |-> <<>>, pos |-> 0, inner |-> inner,
     st |-> "new"]

\* A cycle that tests "while (count--)": one pass too many.
CycleStepPostDecrement(g, e) ==
    IF IsOver(g) THEN Res(g, e, "done", Undef)
    ELSE IF g.st = "new" /\ g.count = 0 THEN Res([g EXCEPT !.st = "done"], e, "done", Undef)
    ELSE IF g.st \in {"new", "first"}
    THEN LET r == Step(g.inner, e)
             g1 == [g EXCEPT !.inner = r.it, !.st = "first"]
         IN  IF r.st = "yield"
             THEN Res([g1 EXCEPT !.buffered = Append(@, r.v)], r.e, "yield", r.v)
             ELSE IF r.st = "done" THEN Res([g1 EXCEPT !.st = "while"], r.e, "busy", Undef)
             ELSE Res(g1, r.e, "busy", Undef)
    ELSE IF g.st = "while"
    THEN IF g.count = 0 THEN Res([g EXCEPT !.st = "done"], e, "done", Undef)
         ELSE Res([g EXCEPT !.count = Minus(@, 1), !.pos = 0, !.st = "replay"], e, "busy", Undef)
    ELSE IF g.pos < Len(g.buffered)
         THEN Res([g EXCEPT !.pos = @ + 1], e, "yield", g.buffered[g.pos + 1])
         ELSE Res([g EXCEPT !.st = "while"], e, "busy", Undef)

CycleStep(g, e) ==
    IF IsOver(g) THEN Res(g, e, "done", Undef)
    ELSE IF g.st = "new" /\ g.count = 0 THEN Res([g EXCEPT !.st = "done"], e, "done", Undef)
    ELSE IF g.st \in {"new", "first"}
    THEN LET r == Step(g.inner, e)
             g1 == [g EXCEPT !.inner = r.it, !.st = "first"]
         IN  IF r.st = "yield"
             THEN Res([g1 EXCEPT !.buffered = Append(@, r.v)], r.e, "yield", r.v)
             ELSE IF r.st = "done" THEN Res([g1 EXCEPT !.st = "while"], r.e, "busy", Undef)
             ELSE Res(g1, r.e, "busy", Undef)
    ELSE IF g.st = "while"
    THEN LET c == Minus(g.count, 1)
         IN  IF c = 0 THEN Res([g EXCEPT !.count = c, !.st = "done"], e, "done", Undef)
             ELSE Res([g EXCEPT !.count = c, !.pos = 0, !.st = "replay"], e, "busy", Undef)
    ELSE IF g.pos < Len(g.buffered)
         THEN Res([g EXCEPT !.pos = @ + 1], e, "yield", g.buffered[g.pos + 1])
         ELSE Res([g EXCEPT !.st = "while"], e, "busy", Undef)

\* stretch(count): left counts what "for (const _ of range(0, count))" has
\* still to yield of item.
StretchIter(count, inner) ==
    [k |-> "stretch", count |-> count, item |-> Undef, left |-> 0, inner |-> inner,
     st |-> "new"]

StretchStep(g, e) ==
    IF IsOver(g) THEN Res(g, e, "done", Undef)
    ELSE IF g.st = "new" /\ g.count = 0 THEN Res([g EXCEPT !.st = "done"], e, "done", Undef)
    ELSE IF g.left > 0 THEN Res([g EXCEPT !.left = @ - 1], e, "yield", g.item)
    ELSE LET r == Step(g.inner, e)
         IN  IF r.st = "yield"
             THEN Res([g EXCEPT !.inner = r.it, !.item = r.v, !.left = g.count - 1,
                                !.st = "open"], r.e, "yield", r.v)
             ELSE Through(g, r)

\* How deep the elements a generator yields are nested in arrays: numbers
\* are not iterable; tuples, pairs, chunks and windows are arrays of numbers.
Nesting(g) ==
    IF g.k \in {"zip", "chunks", "windows", "enumerate", "nest", "nestRange"} THEN 1
    ELSE IF g.k = "map" /\ g.fn = "toPair" THEN 1
    ELSE 0

\* flatten(maxDepth): stack holds the arrays the nested recurse() calls are
\* iterating, innermost last; an item read at depth d is iterable when the
\* elements are nested deeper than d.
FlattenIter(maxDepth, inner) ==
    [k |-> "flatten", maxDepth |-> maxDepth, nesting |-> Nesting(inner),
     boxed |-> inner.k = "tree", stack |-> <<>>, inner |-> inner, st |-> "new"]

\* "Symbol.iterator in Object(item)" for an item read at depth, and the
\* elements the recursive call then iterates.
IsIterable(g, depth, item) == IF g.boxed THEN ~item.leaf ELSE g.nesting > depth
ItemsOf(g, item) == IF g.boxed THEN item.items ELSE item

\* A flatten that forgets the test of depth against maxDepth.
FlattenItemDeep(g, e, item) ==
    IF IsIterable(g, Len(g.stack), item)
    THEN Res([g EXCEPT !.stack = Append(@, [arr |-> ItemsOf(g, item), pos |-> 0])],
             e, "busy", Undef)
    ELSE Res(g, e, "yield", item)

FlattenItem(g, e, item) ==
    LET depth == Len(g.stack)
    IN  IF IsIterable(g, depth, item) /\ depth # g.maxDepth
        THEN Res([g EXCEPT !.stack = Append(@, [arr |-> ItemsOf(g, item), pos |-> 0])],
                 e, "busy", Undef)
        ELSE Res(g, e, "yield", item)

FlattenStep(g, e) ==
    IF IsOver(g) THEN Res(g, e, "done", Undef)
    ELSE IF g.stack # <<>>
    THEN LET d == Len(g.stack)
             top == g.stack[d]
         IN  IF top.pos < Len(top.arr)
             THEN FlattenItem([g EXCEPT !.stack[d].pos = @ + 1], e, top.arr[top.pos + 1])
             ELSE Res([g EXCEPT !.stack = SubSeq(@, 1, d - 1)], e, "busy", Undef)
    ELSE LET r == Step(g.inner, e)
         IN  IF r.st = "yield"
             THEN FlattenItem([g EXCEPT !.inner = r.it, !.st = "open"], r.e, r.v)
             ELSE Through(g, r)

\* A chunks that forgets the trailing short chunk.
ChunksStepNoFlush(g, e) ==
    IF IsOver(g) THEN Res(g, e, "done", Undef)
    ELSE LET r == Step(g.inner, e)
             g1 == [g EXCEPT !.inner = r.it, !.st = "open"]
         IN  IF r.st = "yield"
             THEN LET chunk == Append(g.chunk, r.v)
                  IN  IF Len(chunk) = g.size
                      THEN Res([g1 EXCEPT !.chunk = <<>>], r.e, "yield", chunk)
                      ELSE Res([g1 EXCEPT !.chunk = chunk], r.e, "busy", Undef)
             ELSE IF r.st = "done" THEN Res([g1 EXCEPT !.st = "done"], r.e, "done", Undef)
             ELSE Res(g1, r.e, "busy", Undef)

\* chunks(k): st "flushed" once the trailing short chunk is yielded.
ChunksIter(size, inner) ==
    [k |-> "chunks", size |-> size, chunk |-> <<>>, inner |-> inner, st |-> "new"]

ChunksStep(g, e) ==
    IF IsOver(g) THEN Res(g, e, "done", Undef)
    ELSE IF g.st = "flushed" THEN Res([g EXCEPT !.st = "done"], e, "done", Undef)
    ELSE LET r == Step(g.inner, e)
             g1 == [g EXCEPT !.inner = r.it, !.st = "open"]
         IN  IF r.st = "yield"
             THEN LET chunk == Append(g.chunk, r.v)
                  IN  IF Len(chunk) = g.size
                      THEN Res([g1 EXCEPT !.chunk = <<>>], r.e, "yield", chunk)
                      ELSE Res([g1 EXCEPT !.chunk = chunk], r.e, "busy", Undef)
             ELSE IF r.st = "done"
             THEN IF g.chunk # <<>>
                  THEN Res([g1 EXCEPT !.st = "flushed"], r.e, "yield", g.chunk)
                  ELSE Res([g1 EXCEPT !.st = "done"], r.e, "done", Undef)
             ELSE Res(g1, r.e, "busy", Undef)

\* A windows that starts every window afresh instead of sliding by one.
WindowsStepTumbling(g, e) ==
    IF IsOver(g) THEN Res(g, e, "done", Undef)
    ELSE IF g.st = "flushed" THEN Res([g EXCEPT !.st = "done"], e, "done", Undef)
    ELSE LET r == Step(g.inner, e)
             g1 == [g EXCEPT !.inner = r.it, !.st = "open"]
         IN  IF r.st = "yield"
             THEN LET window == Append(g.window, r.v)
                  IN  IF Len(window) = g.size
                      THEN Res([g1 EXCEPT !.window = <<>>, !.yielded = TRUE],
                               r.e, "yield", window)
                      ELSE Res([g1 EXCEPT !.window = window], r.e, "busy", Undef)
             ELSE IF r.st = "done"
             THEN IF ~g.yielded
                  THEN Res([g1 EXCEPT !.st = "flushed"], r.e, "yield", g.window)
                  ELSE Res([g1 EXCEPT !.st = "done"], r.e, "done", Undef)
             ELSE Res(g1, r.e, "busy", Undef)

\* windows(k)
WindowsIter(size, inner) ==
    [k |-> "windows", size |-> size, window |-> <<>>, yielded |-> FALSE, inner |-> inner,
     st |-> "new"]

WindowsStep(g, e) ==
    IF IsOver(g) THEN Res(g, e, "done", Undef)
    ELSE IF g.st = "flushed" THEN Res([g EXCEPT !.st = "done"], e, "done", Undef)
    ELSE LET r == Step(g.inner, e)
             g1 == [g EXCEPT !.inner = r.it, !.st = "open"]
         IN  IF r.st = "yield"
             THEN LET window == Append(g.window, r.v)
                  IN  IF Len(window) = g.size
                      THEN Res([g1 EXCEPT !.window = Tail(window), !.yielded = TRUE],
                               r.e, "yield", window)
                      ELSE Res([g1 EXCEPT !.window = window], r.e, "busy", Undef)
             ELSE IF r.st = "done"
             THEN IF ~g.yielded
                  THEN Res([g1 EXCEPT !.st = "flushed"], r.e, "yield", g.window)
                  ELSE Res([g1 EXCEPT !.st = "done"], r.e, "done", Undef)
             ELSE Res(g1, r.e, "busy", Undef)

\* enumerate()
EnumerateIter(inner) == [k |-> "enumerate", index |-> 0, inner |-> inner, st |-> "new"]

EnumerateStep(g, e) ==
    IF IsOver(g) THEN Res(g, e, "done", Undef)
    ELSE LET r == Step(g.inner, e)
         IN  IF r.st = "yield"
             THEN Res([g EXCEPT !.inner = r.it, !.index = @ + 1, !.st = "open"],
                      r.e, "yield", <<r.v, g.index>>)
             ELSE Through(g, r)

\* step(step)
StepIter(n, inner) == [k |-> "step", step |-> n, index |-> 0, inner |-> inner, st |-> "new"]

StepStep(g, e) ==
    IF IsOver(g) THEN Res(g, e, "done", Undef)
    ELSE LET r == Step(g.inner, e)
             g1 == [g EXCEPT !.inner = r.it, !.index = @ + 1, !.st = "open"]
         IN  IF r.st = "yield"
             THEN IF g.index % g.step = 0 THEN Res(g1, r.e, "yield", r.v)
                  ELSE Res(g1, r.e, "busy", Undef)
             ELSE Through(g, r)

\* uniqueBy(getKey); unique() is uniqueBy((elem) => elem).  The user's
\* getKey is called for the test and again for seen.add.
UserKey(v) == 0
KeyOf(fn, v) == IF fn = "getKey" THEN UserKey(v) ELSE v
KeyLogged(e, fn, v) == IF fn = "getKey" THEN Logged(e, "getKey", v) ELSE e

UniqueIter(fn, inner) == [k |-> "unique", fn |-> fn, seen |-> {}, inner |-> inner, st |-> "new"]

\* A uniqueBy that remembers only the key it saw last.
UniqueStepAdjacent(g, e) ==
    IF IsOver(g) THEN Res(g, e, "done", Undef)
    ELSE LET r == Step(g.inner, e)
             g1 == [g EXCEPT !.inner = r.it, !.st = "open"]
         IN  IF r.st = "yield"
             THEN IF KeyOf(g.fn, r.v) \notin g.seen
                  THEN Res([g1 EXCEPT !.seen = {KeyOf(g.fn, r.v)}],
                           KeyLogged(KeyLogged(r.e, g.fn, r.v), g.fn, r.v), "yield", r.v)
                  ELSE Res(g1, KeyLogged(r.e, g.fn, r.v), "busy", Undef)
             ELSE Through(g, r)

UniqueStep(g, e) ==
    IF IsOver(g) THEN Res(g, e, "done", Undef)
    ELSE LET r == Step(g.inner, e)
             g1 == [g EXCEPT !.inner = r.it, !.st = "open"]
         IN  IF r.st = "yield"
             THEN IF KeyOf(g.fn, r.v) \notin g.seen
                  THEN Res([g1 EXCEPT !.seen = @ \cup {KeyOf(g.fn, r.v)}],
                           KeyLogged(KeyLogged(r.e, g.fn, r.v), g.fn, r.v), "yield", r.v)
                  ELSE Res(g1, KeyLogged(r.e, g.fn, r.v), "busy", Undef)
             ELSE Through(g, r)

\* nest(iterable): nested is the array, or the array the call drained the
\* iterable into; has says that the outer for-of holds an element i.
NestIter(nested, inner) ==
    [k |-> "nest", nested |-> nested, has |-> FALSE, i |-> Undef, pos |-> 0,
     inner |-> inner, st |-> "new"]

NestStep(g, e) ==
    IF IsOver(g) THEN Res(g, e, "done", Undef)
    ELSE IF g.has /\ g.pos < Len(g.nested)
    THEN Res([g EXCEPT !.pos = @ + 1], e, "yield", <<g.i, g.nested[g.pos + 1]>>)
    ELSE LET r == Step(g.inner, e)
         IN  IF r.st = "yield"
             THEN Res([g EXCEPT !.inner = r.it, !.has = TRUE, !.i = r.v, !.pos = 0,
                                !.st = "open"], r.e, "busy", Undef)
             ELSE Through([g EXCEPT !.has = FALSE], r)

\* A _nestRange whose range is made once, outside the loops.
NestRangeStepOneRange(g, e) ==
    IF IsOver(g) THEN Res(g, e, "done", Undef)
    ELSE LET j == IF g.has THEN RangeStep(g.range, e) ELSE Res(g.range, e, "done", Undef)
         IN  IF j.st = "yield"
             THEN Res([g EXCEPT !.range = j.it], e, "yield", <<g.i, j.v>>)
             ELSE LET r == Step(g.inner, e)
                  IN  IF r.st = "yield"
                      THEN Res([g EXCEPT !.inner = r.it, !.has = TRUE, !.i = r.v,
                                         !.st = "open"],
                               r.e, "busy", Undef)
                      ELSE Through([g EXCEPT !.has = FALSE], r)

\* _nestRange(start, end): the inner loop runs a fresh range(start, end)
\* for every element i.
NestRangeIter(start, end, inner) ==
    [k |-> "nestRange", start |-> start, end |-> end, has |-> FALSE, i |-> Undef,
     range |-> RangeIter(start, end), inner |-> inner, st |-> "new"]

NestRangeStep(g, e) ==
    IF IsOver(g) THEN Res(g, e, "done", Undef)
    ELSE LET j == IF g.has THEN RangeStep(g.range, e) ELSE Res(g.range, e, "done", Undef)
         IN  IF j.st = "yield"
             THEN Res([g EXCEPT !.range = j.it], e, "yield", <<g.i, j.v>>)
             ELSE LET r == Step(g.inner, e)
                  IN  IF r.st = "yield"
                      THEN Res([g EXCEPT !.inner = r.it, !.has = TRUE, !.i = r.v,
                                         !.range = RangeIter(g.start, g.end), !.st = "open"],
                               r.e, "busy", Undef)
                      ELSE Through([g EXCEPT !.has = FALSE], r)

Step(g, e) ==
    CASE g.k \in {"arr", "tree"} -> ArrayStep(g, e)
      [] g.k = "zip" -> ZipStep(g, e)
      [] g.k = "inspect" -> InspectStep(g, e)
      [] g.k = "map" -> MapStep(g, e)
      [] g.k = "filter" -> FilterStep(g, e)
      [] g.k = "skip" -> SkipStep(g, e)
      [] g.k = "take" -> TakeStep(g, e)
      [] g.k = "skipWhile" -> SkipWhileStep(g, e)
      [] g.k = "takeWhile" -> TakeWhileStep(g, e)
      [] g.k = "accumulate" -> AccumulateStep(g, e)
      [] g.k = "chain" -> ChainStep(g, e)
      [] g.k = "once" -> OnceStep(g, e)
      [] g.k = "range" -> RangeStep(g, e)
      [] g.k = "cycle" -> CycleStep(g, e)
      [] g.k = "stretch" -> StretchStep(g, e)
      [] g.k = "flatten" -> FlattenStep(g, e)
      [] g.k = "chunks" -> ChunksStep(g, e)
      [] g.k = "windows" -> WindowsStep(g, e)
      [] g.k = "enumerate" -> EnumerateStep(g, e)
      [] g.k = "step" -> StepStep(g, e)
      [] g.k = "unique" -> UniqueStep(g, e)
      [] g.k = "nest" -> NestStep(g, e)
      [] g.k = "nestRange" -> NestRangeStep(g, e)

\* generator.return(): a generator suspended inside a for-of closes the
\* iterator that for-of runs over; one not yet started just ends.
Close(g) ==
    IF IsOver(g) THEN g
    ELSE IF g.st = "new" \/ g.k = "arr" THEN [g EXCEPT !.st = "closed"]
    ELSE IF g.k \in {"inspect", "map", "filter", "skip", "take", "accumulate", "stretch",
                     "chunks", "windows", "enumerate", "step", "unique", "nest", "nestRange"}
    THEN [g EXCEPT !.inner = Close(@), !.st = "closed"]
    ELSE IF g.k \in {"skipWhile", "flatten"} /\ g.st = "open"
    THEN [g EXCEPT !.inner = Close(@), !.st = "closed"]
    ELSE IF g.k = "cycle" /\ g.st = "first"
    THEN [g EXCEPT !.inner = Close(@), !.st = "closed"]
    ELSE IF g.k = "chain"
    THEN [g EXCEPT !.inners[g.cur] = Close(@), !.st = "closed"]
    ELSE [g EXCEPT !.st = "closed"]

\* ---------------------------------------------------------------- calls
Zeros(n) == [i \in 1..n |-> 0]
TaggedFrom(first, lens) == [j \in 1..Len(lens) |-> Tagged(first + j - 1, lens[j])]
ItersFrom(first, n) == [j \in 1..n |-> ArrayIter(first + j - 1)]

Init ==
    /\ srcs = <<>>
    /\ it = Nil
    /\ pulls = <<>>
    /\ opens = <<>>
    /\ log = <<>>
    /\ ops = <<>>
    /\ pc = "idle"
    /\ consumer = NoConsumer
    /\ acc = Undef
    /\ out = <<>>
    /\ ret = Undef
    /\ steps = 0
    /\ past = <<>>

Consuming == <<consumer, acc, out, ret, steps, past>>

\* The user passes more arrays: they join srcs, untouched.
AddSrcs(more) ==
    /\ srcs' = srcs \o more
    /\ pulls' = pulls \o Zeros(Len(more))
    /\ opens' = opens \o Zeros(Len(more))

\* iter(array)
IterCall ==
    /\ pc = "idle"
    /\ \E a \in Arrays : AddSrcs(<<a>>)
    /\ it' = ArrayIter(1)
    /\ ops' = <<[op |-> "iter"]>>
    /\ pc' = "built"
    /\ UNCHANGED <<log, Consuming>>

\* iter(array) with an array of numbers and nested arrays
IterNestedCall ==
    /\ pc = "idle"
    /\ \E a \in NestedArrays : AddSrcs(<<a>>)
    /\ it' = [ArrayIter(1) EXCEPT !.k = "tree"]
    /\ ops' = <<[op |-> "iterNested"]>>
    /\ pc' = "built"
    /\ UNCHANGED <<log, Consuming>>

\* iter(nested array).flatten(maxDepth), maxDepth in the allowed range
NestedFlattenCall ==
    /\ pc = "built"
    /\ it.k = "tree"
    /\ it.st = "new"
    /\ \E d \in {0, 1, 2, 10} :
        /\ it' = FlattenIter(d, it)
        /\ ops' = Append(ops, [op |-> "flatten", n |-> d])
    /\ UNCHANGED <<srcs, pulls, opens, log, pc, Consuming>>

\* once(value)
OnceCall ==
    /\ pc = "idle"
    /\ \E v \in Vals : it' = OnceIter(v) /\ ops' = <<[op |-> "once", value |-> v]>>
    /\ pc' = "built"
    /\ UNCHANGED <<srcs, pulls, opens, log, Consuming>>

\* start and end from range's arguments: (start, end), (end) or ().
RangeArgs(args) ==
    IF Len(args) = 2 THEN [start |-> args[1], end |-> args[2]]
    ELSE IF Len(args) = 1 THEN [start |-> 0, end |-> args[1]]
    ELSE [start |-> 0, end |-> Infinity]

\* range(start, end), range(end) and range()
RangeCall ==
    /\ pc = "idle"
    /\ \E args \in UNION {[1..n -> -MaxNum..MaxNum] : n \in 0..2} :
        /\ it' = RangeIter(RangeArgs(args).start, RangeArgs(args).end)
        /\ ops' = <<[op |-> "range", args |-> args]>>
    /\ pc' = "built"
    /\ UNCHANGED <<srcs, pulls, opens, log, Consuming>>

\* zip(A1, ..., An), the free function
ZipFreeCall ==
    /\ pc = "idle"
    /\ \E lens \in Lengths(MaxOthers + 1) :
        /\ AddSrcs(TaggedFrom(1, lens))
        /\ it' = ZipIter(TRUE, ItersFrom(1, Len(lens)))
        /\ ops' = <<[op |-> "zipFree", n |-> Len(lens)]>>
    /\ pc' = "built"
    /\ UNCHANGED <<log, Consuming>>

Adaptable == pc = "built" /\ it.k \in {"arr", "inspect"} /\ it.st = "new" /\ Len(ops) <= 2

\* A method call that runs the new generator to its first yield.
AdaptEager(g, call) ==
    /\ Adaptable
    /\ LET r == Step(g, Env)
       IN  /\ it' = r.it
           /\ pulls' = r.e.pulls
           /\ opens' = r.e.opens
           /\ log' = r.e.log
    /\ ops' = Append(ops, call)
    /\ UNCHANGED <<srcs, pc, Consuming>>

\* A method call that returns a new ZiltIterator over the generator g.
Adapt(g, call) ==
    /\ Adaptable
    /\ it' = g
    /\ ops' = Append(ops, call)
    /\ UNCHANGED <<srcs, pulls, opens, log, pc, Consuming>>

\* A method call that lets an invalid parameter pass and returns the receiver.
ThrowsNothing(call) ==
    /\ Adaptable
    /\ ops' = Append(ops, call)
    /\ UNCHANGED <<srcs, it, pulls, opens, log, pc, Consuming>>

\* A method call that throws ZiltError instead of returning.
Throws(call) ==
    /\ Adaptable
    /\ pc' = "thrown"
    /\ ops' = Append(ops, call)
    /\ UNCHANGED <<srcs, it, pulls, opens, log, Consuming>>

Nums == -1..MaxNum

InspectCall == it.k = "arr" /\ Adapt(InspectIter(it), [op |-> "inspect"])

MapCall == Adapt(MapIter("map", it), [op |-> "map"])

\* iter(array).inspect(f).map(g).inspect(h): the last call of the pipeline
InspectMappedCall ==
    /\ pc = "built"
    /\ it.k = "map" /\ it.fn = "map" /\ it.inner.k = "inspect"
    /\ it.st = "new"
    /\ it' = InspectNamed("inspectMapped", it)
    /\ ops' = Append(ops, [op |-> "inspect"])
    /\ UNCHANGED <<srcs, pulls, opens, log, pc, Consuming>>

FilterCall == \E p \in Preds : Adapt(FilterIter(p, it), [op |-> "filter", pred |-> p])

SkipCall ==
    \E n \in Nums :
        LET call == [op |-> "skip", n |-> n]
        IN  IF n < 0 THEN Throws(call) ELSE Adapt(SkipIter(n, it), call)

TakeCall ==
    \E n \in Nums :
        LET call == [op |-> "take", n |-> n]
        IN  IF n < 0 THEN Throws(call) ELSE Adapt(TakeIter(n, it), call)

SkipWhileCall ==
    \E p \in Preds : Adapt(SkipWhileIter(p, it), [op |-> "skipWhile", pred |-> p])

\* takeWhile(pred) stores its generator function in the receiver and
\* returns the receiver.
TakeWhileCall ==
    \E p \in Preds : Adapt(TakeWhileIter(p, it), [op |-> "takeWhile", pred |-> p])

CycleCall ==
    \E n \in Nums \cup {Infinity} :
        LET call == [op |-> "cycle", n |-> n]
        IN  IF n < 0 THEN Throws(call) ELSE Adapt(CycleIter(n, it), call)

StretchCall ==
    \E n \in Nums :
        LET call == [op |-> "stretch", n |-> n]
        IN  IF n < 0 THEN Throws(call) ELSE Adapt(StretchIter(n, it), call)

\* flatten(maxDepth); recurse(0, this.generator()) creates the generators
\* and runs neither.
FlattenCall ==
    \E d \in {-1, 0, 1, 10, 11} :
        LET call == [op |-> "flatten", n |-> d]
        IN  IF d < 0 \/ d > 10 THEN Throws(call) ELSE Adapt(FlattenIter(d, it), call)

\* flatMap(func): this.map(func).flatten(1)
FlatMapCall == Adapt(FlattenIter(1, MapIter("toPair", it)), [op |-> "flatMap"])

ChunksCall == \E n \in Nums : Adapt(ChunksIter(n, it), [op |-> "chunks", n |-> n])

\* receiver.chunks(k).flatten(maxDepth): flatten called on the ZiltIterator
\* chunks returned.
ChunksFlattenCall ==
    /\ pc = "built"
    /\ it.k = "chunks"
    /\ it.st = "new"
    /\ \E d \in 0..2 :
        /\ it' = FlattenIter(d, it)
        /\ ops' = Append(ops, [op |-> "flatten", n |-> d])
    /\ UNCHANGED <<srcs, pulls, opens, log, pc, Consuming>>

WindowsCall ==
    \E n \in Nums :
        LET call == [op |-> "windows", n |-> n]
        IN  IF n <= 0 THEN Throws(call) ELSE Adapt(WindowsIter(n, it), call)

EnumerateCall == Adapt(EnumerateIter(it), [op |-> "enumerate"])

StepCall ==
    \E n \in Nums :
        LET call == [op |-> "step", n |-> n]
        IN  IF n <= 0 THEN Throws(call) ELSE Adapt(StepIter(n, it), call)

\* unique() and uniqueBy(getKey)
UniqueCall ==
    \E fn \in {"identity", "getKey"} : Adapt(UniqueIter(fn, it), [op |-> "unique", fn |-> fn])

\* slice(start, end): this.skip(start).take(end - start)
SliceCall ==
    \E start \in Nums, end \in Nums \cup {Infinity} :
        LET call == [op |-> "slice", start |-> start, end |-> end]
        IN  IF start < 0 \/ end < 0 \/ start > end THEN Throws(call)
            ELSE Adapt(TakeIter(Minus(end, start), SkipIter(start, it)), call)

\* [...iterable]: the iterable drained into an array
RECURSIVE Spread(_, _, _)
Spread(g, e, arr) ==
    LET r == NextOf(g, e)
    IN  IF r.st = "done" THEN [it |-> r.it, e |-> r.e, arr |-> arr]
        ELSE Spread(r.it, r.e, Append(arr, r.v))

\* receiver.nest(iterable): an array is kept as it is, any other iterable
\* (here iter(array)) is drained by the call.
NestCall ==
    /\ Adaptable
    /\ \E n \in 0..MaxLen, isArray \in BOOLEAN :
        LET j == Len(srcs) + 1
            arr == Tagged(j, n)
            e == [srcs |-> Append(srcs, arr), pulls |-> Append(pulls, 0),
                  opens |-> Append(opens, 0), log |-> log]
            nested == IF isArray THEN [e |-> e, arr |-> arr] ELSE Spread(ArrayIter(j), e, <<>>)
        IN  /\ srcs' = Append(srcs, arr)
            /\ pulls' = nested.e.pulls
            /\ opens' = nested.e.opens
            /\ it' = NestIter(nested.arr, it)
            /\ ops' = Append(ops, [op |-> "nest", isArray |-> isArray])
    /\ UNCHANGED <<log, pc, Consuming>>

\* start and end from _nestRange's arguments: (start, end) or (end).
NestRangeArgs(args) ==
    IF Len(args) = 2 THEN [start |-> args[1], end |-> args[2]]
    ELSE IF Len(args) = 1 THEN [start |-> 0, end |-> args[1]]
    ELSE [start |-> 0, end |-> Infinity]

\* The numbers passed to nest: (end) or (start, end).
NestArgs == {<<end>> : end \in Nums} \cup {<<start, end>> : start \in 0..1, end \in Nums}

\* receiver.nest(end) and receiver.nest(start, end)
NestRangeCall ==
    \E args \in NestArgs :
        LET start == NestRangeArgs(args).start
            end == NestRangeArgs(args).end
        IN  Adapt(NestRangeIter(start, end, it),
                  [op |-> "nestRange", start |-> start, end |-> end, args |-> args])

\* receiver.nest(range(end)) and receiver.nest(range(start, end)): the range
\* is not an array, the call drains it.
NestOfRangeCall ==
    \E args \in NestArgs :
        LET iterable == RangeIter(RangeArgs(args).start, RangeArgs(args).end)
            nested == Spread(iterable, Env, <<>>)
        IN  Adapt(NestIter(nested.arr, it), [op |-> "nestOfRange", args |-> args])

\* receiver.zip(A2, ..., An)
ZipCall ==
    /\ Adaptable
    /\ \E lens \in Lengths(MaxOthers) :
        /\ AddSrcs(TaggedFrom(Len(srcs) + 1, lens))
        /\ it' = ZipIter(FALSE, <<it>> \o ItersFrom(Len(srcs) + 1, Len(lens)))
        /\ ops' = Append(ops, [op |-> "zip", n |-> Len(lens)])
    /\ UNCHANGED <<log, pc, Consuming>>

\* chain(A1, ..., An), the free function
ChainFreeCall ==
    /\ pc = "idle"
    /\ \E lens \in Lengths(MaxOthers + 1) :
        /\ AddSrcs(TaggedFrom(1, lens))
        /\ it' = ChainIter(ItersFrom(1, Len(lens)))
        /\ ops' = <<[op |-> "chainFree", n |-> Len(lens)]>>
    /\ pc' = "built"
    /\ UNCHANGED <<log, Consuming>>

\* receiver.chain(A2, ..., An)
ChainCall ==
    /\ Adaptable
    /\ \E lens \in Lengths(MaxOthers) :
        /\ AddSrcs(TaggedFrom(Len(srcs) + 1, lens))
        /\ it' = ChainIter(<<it>> \o ItersFrom(Len(srcs) + 1, Len(lens)))
        /\ ops' = Append(ops, [op |-> "chain", n |-> Len(lens)])
    /\ UNCHANGED <<log, pc, Consuming>>

\* reduce and accumulate without an initializer see initializer === null.
Initializers == {[hasInit |-> FALSE, init |-> Undef]}
                    \cup {[hasInit |-> TRUE, init |-> i] : i \in Inits}

\* A reduction that never throws.
EmptyThrowsNever(hasInit, first) == FALSE

\* "if (initializer === null && first.done) throw new ZiltError(...)"
EmptyThrows(hasInit, first) == ~hasInit /\ first.st = "done"

\* receiver.accumulate(func, initializer): the call itself makes the first
\* next() on the receiver, then throws or returns the new ZiltIterator.
AccumulateCall ==
    /\ Adaptable
    /\ \E a \in Initializers :
        LET first == NextOf(it, Env)
        IN  /\ pulls' = first.e.pulls
            /\ opens' = first.e.opens
            /\ log' = first.e.log
            /\ ops' = Append(ops, [op |-> "accumulate", hasInit |-> a.hasInit, init |-> a.init])
            /\ IF EmptyThrows(a.hasInit, first)
               THEN it' = first.it /\ pc' = "thrown"
               ELSE /\ it' = AccumulateIter(a.hasInit, a.init,
                                            [done |-> first.st = "done", value |-> first.v],
                                            first.it)
                    /\ pc' = pc
    /\ UNCHANGED <<srcs, Consuming>>

\* ---------------------------------------------------------------- consumers
\* One next() step of the consumer's loop on the ZiltIterator.
Pull(r) ==
    /\ steps < StepLimit
    /\ steps' = steps + 1
    /\ it' = r.it
    /\ pulls' = r.e.pulls
    /\ opens' = r.e.opens

\* collect(): [...this]
CollectCall ==
    /\ pc = "built"
    /\ pc' = "collect"
    /\ consumer' = [kind |-> "collect"]
    /\ UNCHANGED <<srcs, past, it, pulls, opens, log, ops, acc, out, ret, steps>>

CollectStep ==
    /\ pc = "collect"
    /\ LET r == Step(it, Env)
       IN  /\ Pull(r)
           /\ log' = r.e.log
           /\ out' = IF r.st = "yield" THEN Append(out, r.v) ELSE out
           /\ pc' = IF r.st = "done" THEN "returned" ELSE pc
    /\ UNCHANGED <<srcs, past, ops, consumer, acc, ret>>

\* reduce(func, initializer), explored on iter(array) and on
\* iter(array).inspect(func).
ReduceCall ==
    /\ pc = "built"
    /\ it.k \in {"arr", "inspect"}
    /\ \E a \in Initializers :
        consumer' = [kind |-> "reduce", fn |-> "func", hasInit |-> a.hasInit, init |-> a.init]
    /\ pc' = "reduceFirst"
    /\ UNCHANGED <<srcs, past, it, pulls, opens, log, ops, acc, out, ret, steps>>

\* count(): this.reduce((acc, val) => (pred(val) ? acc + 1 : acc), 0) with
\* the default predicate () => true; explored on the same receivers and on
\* their take(num).
CountCall ==
    /\ pc = "built"
    /\ it.k \in {"arr", "inspect", "take"}
    /\ consumer' = [kind |-> "count", fn |-> "count", hasInit |-> TRUE, init |-> 0]
    /\ pc' = "reduceFirst"
    /\ UNCHANGED <<srcs, past, it, pulls, opens, log, ops, acc, out, ret, steps>>

\* "initializer === null ? first.value : func(initializer, first.value)"
ReduceSeed(c, first) ==
    IF c.hasInit THEN Fold(c.fn, c.init, first.v) ELSE first.v

SeedLogged(c, first) ==
    IF c.hasInit THEN FoldLogged(first.e, c.fn, first.v) ELSE first.e

\* let first = iter.next(), the throw on an empty iterator, the seed of acc
ReduceFirst ==
    /\ pc = "reduceFirst"
    /\ LET first == Step(it, Env)
       IN  /\ Pull(first)
           /\ IF first.st = "busy"
              THEN log' = first.e.log /\ UNCHANGED <<acc, pc>>
              ELSE IF EmptyThrows(consumer.hasInit, first)
              THEN log' = first.e.log /\ pc' = "thrown" /\ UNCHANGED acc
              ELSE /\ acc' = ReduceSeed(consumer, first)
                   /\ log' = SeedLogged(consumer, first).log
                   /\ pc' = "reduce"
    /\ UNCHANGED <<srcs, past, ops, consumer, out, ret>>

\* for (const item of iter) acc = func(acc, item); return acc
ReduceStep ==
    /\ pc = "reduce"
    /\ LET r == Step(it, Env)
       IN  /\ Pull(r)
           /\ acc' = IF r.st = "yield" THEN Fold(consumer.fn, acc, r.v) ELSE acc
           /\ log' = IF r.st = "yield" THEN FoldLogged(r.e, consumer.fn, r.v).log ELSE r.e.log
           /\ ret' = IF r.st = "done" THEN acc ELSE ret
           /\ pc' = IF r.st = "done" THEN "returned" ELSE pc
    /\ UNCHANGED <<srcs, past, ops, consumer, out>>

\* updateLen(n): outLists grows to n lists, the new ones empty.
UpdateLen(lists, n) ==
    IF Len(lists) >= n THEN lists
    ELSE lists \o [i \in 1..(n - Len(lists)) |-> <<>>]

\* An unzip that puts each element at the front of its list.
UnzipItemFront(lists, list) ==
    LET grown == UpdateLen(lists, Len(list))
    IN  [i \in 1..Len(grown) |-> IF i <= Len(list) THEN <<list[i]>> \o grown[i] ELSE grown[i]]

\* The body of unzip's loop for an item that is an array: updateLen, then
\* outLists[index].push(elem) for every elem of the item.
UnzipItem(lists, list) ==
    LET grown == UpdateLen(lists, Len(list))
    IN  [i \in 1..Len(grown) |-> IF i <= Len(list) THEN Append(grown[i], list[i]) ELSE grown[i]]

\* unzip(), explored on iter(array), on its zip(...) and on its windows(k).
UnzipCall ==
    /\ pc = "built"
    /\ it.k \in {"arr", "zip", "windows"}
    /\ pc' = "unzip"
    /\ consumer' = [kind |-> "unzip"]
    /\ UNCHANGED <<srcs, past, it, pulls, opens, log, ops, acc, out, ret, steps>>

\* for (const item of this.generator()): the throw on an item that is not
\* an array, the item spread over outLists, return outLists.
UnzipStep ==
    /\ pc = "unzip"
    /\ LET r == Step(it, Env)
       IN  /\ Pull(r)
           /\ log' = r.e.log
           /\ IF r.st = "yield" /\ Nesting(it) = 0
              THEN pc' = "thrown" /\ out' = out
              ELSE /\ out' = IF r.st = "yield" THEN UnzipItem(out, r.v) ELSE out
                   /\ pc' = IF r.st = "done" THEN "returned" ELSE pc
    /\ UNCHANGED <<srcs, past, ops, consumer, acc, ret>>

\* A partition that keeps only what the predicate accepts.
PartitionItemLeftOnly(lists, item, matches) ==
    IF matches THEN <<Append(lists[1], item), lists[2]>> ELSE lists

\* "if (pred(item, index)) left.push(item); else right.push(item);"
PartitionItem(lists, item, matches) ==
    IF matches THEN <<Append(lists[1], item), lists[2]>>
    ELSE <<lists[1], Append(lists[2], item)>>

\* partition(pred), explored on iter(array) and on iter(array).inspect(func):
\* left and right start empty.
PartitionCall ==
    /\ pc = "built"
    /\ it.k \in {"arr", "inspect"}
    /\ \E p \in Preds : consumer' = [kind |-> "partition", pred |-> p]
    /\ out' = <<<<>>, <<>>>>
    /\ pc' = "partition"
    /\ UNCHANGED <<srcs, past, it, pulls, opens, log, ops, acc, ret, steps>>

\* for (const item of this.generator()) ...; return [left, right]
PartitionStep ==
    /\ pc = "partition"
    /\ LET r == Step(it, Env)
           index == Len(out[1]) + Len(out[2])
       IN  /\ Pull(r)
           /\ log' = IF r.st = "yield" THEN Logged(r.e, "pred", r.v).log ELSE r.e.log
           /\ out' = IF r.st = "yield"
                     THEN PartitionItem(out, r.v, CallPred(consumer.pred, r.v, index))
                     ELSE out
           /\ pc' = IF r.st = "done" THEN "returned" ELSE pc
    /\ UNCHANGED <<srcs, past, ops, consumer, acc, ret>>

\* find(pred), position(pred), some(pred), every(pred): "let index = 0"
\* before the loop; explored on iter(array) and on iter(array).inspect(func).
Search(kind) ==
    /\ pc = "built"
    /\ it.k \in {"arr", "inspect"}
    /\ \E p \in Preds : consumer' = [kind |-> kind, pred |-> p]
    /\ acc' = 0
    /\ pc' = "search"
    /\ UNCHANGED <<srcs, it, pulls, opens, log, ops, out, ret, steps, past>>

FindCall == Search("find")
PositionCall == Search("position")
SomeCall == Search("some")
EveryCall == Search("every")

\* The test that ends the loop: the predicate for find, position and some,
\* its negation for every.
Stops(c, element, index) ==
    IF c.kind = "every" THEN ~CallPred(c.pred, element, index)
    ELSE CallPred(c.pred, element, index)

\* The value of the return statement inside the loop.
Found(c, element, index) ==
    CASE c.kind = "find" -> element
      [] c.kind = "position" -> index
      [] c.kind = "some" -> TRUE
      [] c.kind = "every" -> FALSE

\* The value returned once the loop has run to the end of the iterator.
NotFound(c) ==
    CASE c.kind \in {"find", "position"} -> Undef
      [] c.kind = "some" -> FALSE
      [] c.kind = "every" -> TRUE

\* for (const element of this.generator()) { if (...) return ...; index += 1 }:
\* the return inside the loop closes the iterator the loop runs over.
SearchStep ==
    /\ pc = "search"
    /\ steps < StepLimit
    /\ steps' = steps + 1
    /\ LET r == Step(it, Env)
           stops == r.st = "yield" /\ Stops(consumer, r.v, acc)
       IN  /\ it' = IF stops THEN Close(r.it) ELSE r.it
           /\ pulls' = r.e.pulls
           /\ opens' = r.e.opens
           /\ log' = IF r.st = "yield" THEN Logged(r.e, "pred", r.v).log ELSE r.e.log
           /\ acc' = IF r.st = "yield" /\ ~stops THEN acc + 1 ELSE acc
           /\ ret' = IF stops THEN Found(consumer, r.v, acc)
                     ELSE IF r.st = "done" THEN NotFound(consumer) ELSE ret
           /\ pc' = IF stops \/ r.st = "done" THEN "returned" ELSE pc
    /\ UNCHANGED <<srcs, ops, consumer, out, past>>

\* last(), explored on the same receivers: "let last" starts undefined.
LastCall ==
    /\ pc = "built"
    /\ it.k \in {"arr", "inspect"}
    /\ consumer' = [kind |-> "last"]
    /\ pc' = "last"
    /\ UNCHANGED <<srcs, it, pulls, opens, log, ops, acc, out, ret, steps, past>>

\* for (const element of this.generator()) last = element; return last
LastStep ==
    /\ pc = "last"
    /\ LET r == Step(it, Env)
       IN  /\ Pull(r)
           /\ log' = r.e.log
           /\ ret' = IF r.st = "yield" THEN r.v ELSE ret
           /\ pc' = IF r.st = "done" THEN "returned" ELSE pc
    /\ UNCHANGED <<srcs, ops, consumer, acc, out, past>>

\* nth(n) and first(), which is nth(0); explored on the same receivers.
NthCall ==
    /\ pc = "built"
    /\ it.k \in {"arr", "inspect"}
    /\ \E n \in Nums : consumer' = [kind |-> "nth", n |-> n]
    /\ pc' = "nth"
    /\ UNCHANGED <<srcs, it, pulls, opens, log, ops, acc, out, ret, steps, past>>

FirstCall ==
    /\ pc = "built"
    /\ it.k \in {"arr", "inspect"}
    /\ consumer' = [kind |-> "first", n |-> 0]
    /\ pc' = "nth"
    /\ UNCHANGED <<srcs, it, pulls, opens, log, ops, acc, out, ret, steps, past>>

\* A nth that counts from one.
NthFromOne(n, g, e) ==
    IF n >= 1
    THEN LET res == NextOf(SkipIter(n - 1, g), e)
         IN  [it |-> res.it.inner, e |-> res.e,
              value |-> IF res.st = "done" THEN Undef ELSE res.v]
    ELSE [it |-> g, e |-> e, value |-> Undef]

\* The body of nth: "if (n >= 0)", then one next() on this.skip(n), whose
\* generator stays suspended; undefined when res.done or when n < 0.
Nth(n, g, e) ==
    IF n >= 0
    THEN LET res == NextOf(SkipIter(n, g), e)
         IN  [it |-> res.it.inner, e |-> res.e,
              value |-> IF res.st = "done" THEN Undef ELSE res.v]
    ELSE [it |-> g, e |-> e, value |-> Undef]

NthStep ==
    /\ pc = "nth"
    /\ LET res == Nth(consumer.n, it, Env)
       IN  /\ it' = res.it
           /\ pulls' = res.e.pulls
           /\ opens' = res.e.opens
           /\ log' = res.e.log
           /\ ret' = res.value
    /\ steps' = steps + 1
    /\ pc' = "returned"
    /\ UNCHANGED <<srcs, ops, consumer, acc, out, past>>

\* A generator made once, by the constructor, and shared by every call.
RestartNever(g) == g

\* What the receiver iter(array) of the adapter call wraps after the call:
\* its array, or, after takeWhile assigned this.generator and returned
\* this, the generator g the call made.
ReceiverOf(call, g) == IF call.op = "takeWhile" THEN g ELSE ArrayIter(1)

\* s.collect() after t = s.op(...) on s = iter(array), for the adapters that
\* take no other iterable.
ReceiverCollectCall ==
    /\ pc = "built"
    /\ Len(ops) = 2 /\ ops[1].op = "iter"
    /\ Len(srcs) = 1
    /\ it' = ReceiverOf(ops[2], it)
    /\ consumer' = [kind |-> "collectReceiver"]
    /\ pc' = "collect"
    /\ UNCHANGED <<srcs, pulls, opens, log, ops, acc, out, ret, steps, past>>

\* this.generator() at the start of a consumer call: an array is traversed
\* from its first element again, a generator object goes on from where it
\* is, and the generator function takeWhile stored calls previous() again.
RECURSIVE Restart(_)
Restart(g) ==
    IF g.k \in {"arr", "tree"} THEN [g EXCEPT !.pos = 0, !.st = "new"]
    ELSE IF g.k = "takeWhile" THEN TakeWhileIter(g.pred, Restart(g.inner))
    ELSE g

\* The position a consumer's loop starts from.
LoopOf(c) ==
    CASE c.kind = "collect" -> "collect"
      [] c.kind \in {"reduce", "count"} -> "reduceFirst"
      [] c.kind = "unzip" -> "unzip"
      [] c.kind = "partition" -> "partition"
      [] c.kind \in {"find", "position", "some", "every"} -> "search"
      [] c.kind = "last" -> "last"
      [] c.kind \in {"nth", "first"} -> "nth"

\* One more consumer call on the ZiltIterator a consumer has returned from:
\* the same call again, or collect().
AgainCall ==
    /\ pc = "returned"
    /\ Len(past) + 1 < MaxCalls
    /\ consumer.kind # "collectReceiver"
    /\ \E c \in {consumer, [kind |-> "collect"]} :
        /\ consumer' = c
        /\ pc' = LoopOf(c)
        /\ out' = IF c.kind = "partition" THEN <<<<>>, <<>>>> ELSE <<>>
        /\ acc' = IF LoopOf(c) = "search" THEN 0 ELSE Undef
    /\ past' = Append(past, [consumer |-> consumer, out |-> out, ret |-> ret])
    /\ it' = Restart(it)
    /\ ret' = Undef
    /\ steps' = 0
    /\ UNCHANGED <<srcs, pulls, opens, log, ops>>

Next ==
    \/ IterCall \/ OnceCall \/ RangeCall \/ ZipFreeCall \/ ChainFreeCall
    \/ InspectCall \/ MapCall \/ InspectMappedCall
    \/ FilterCall \/ SkipCall \/ TakeCall
    \/ SkipWhileCall \/ TakeWhileCall \/ ZipCall \/ ChainCall \/ AccumulateCall
    \/ CycleCall \/ StretchCall \/ FlattenCall \/ FlatMapCall \/ ChunksCall
    \/ ChunksFlattenCall \/ IterNestedCall \/ NestedFlattenCall
    \/ WindowsCall \/ EnumerateCall \/ StepCall \/ UniqueCall \/ SliceCall
    \/ NestCall \/ NestRangeCall \/ NestOfRangeCall
    \/ CollectCall \/ CollectStep
    \/ ReduceCall \/ CountCall \/ ReduceFirst \/ ReduceStep
    \/ UnzipCall \/ UnzipStep
    \/ PartitionCall \/ PartitionStep
    \/ FindCall \/ PositionCall \/ SomeCall \/ EveryCall \/ SearchStep
    \/ LastCall \/ LastStep \/ NthCall \/ FirstCall \/ NthStep
    \/ AgainCall \/ ReceiverCollectCall

Spec == Init /\ [][Next]_vars

\* ---------------------------------------------------------------- claims
\* The consumer running or returned is the first call made on the object.
Called(kind) == consumer.kind = kind /\ past = <<>>
LastOp == ops[Len(ops)]
Collected == pc = "returned" /\ Called("collect")
\* iter(A).op(...), with or without an inspect in between
OnReceiver(op) ==
    /\ Len(ops) >= 2
    /\ ops[1].op = "iter"
    /\ LastOp.op = op
    /\ \A i \in 2..(Len(ops) - 1) : ops[i].op = "inspect"
\* iter(A), with or without an inspect after it
PlainSource ==
    /\ ops # <<>>
    /\ ops[1].op = "iter"
    /\ \A i \in 2..Len(ops) : ops[i].op = "inspect"
Untouched(i) == pulls[i] = 0 /\ opens[i] = 0

MinLen(arrs) == MinOf({Len(arrs[j]) : j \in 1..Len(arrs)})
ZipOf(arrs) == [i \in 1..MinLen(arrs) |-> [j \in 1..Len(arrs) |-> arrs[j][i]]]
IsZip == ops # <<>> /\ LastOp.op \in {"zip", "zipFree"}

\* C1: a collected zip (free function or method) holds exactly
\* min(len(A1), ..., len(An)) tuples, the i-th being [A1[i], ..., An[i]] in
\* argument order, receiver first; zip() of no arguments collects to [].
C1_ZipShortest ==
    (Collected /\ IsZip) =>
        IF srcs = <<>> THEN out = <<>>
        ELSE Len(out) = MinLen(srcs) /\ out = ZipOf(srcs)

C1_Witness ==
    /\ Collected
    /\ OnReceiver("zip")
    /\ Len(srcs) = 3
    /\ Len(srcs[1]) > Len(srcs[2])
    /\ Len(srcs[3]) > Len(srcs[2])
    /\ Len(out) >= 2

\* C2: reduce(f, init) on an empty sequence returns init and never calls f.
C2_ReduceEmptyInit ==
    (pc = "returned" /\ Called("reduce") /\ consumer.hasInit
        /\ PlainSource /\ srcs[1] = <<>>) =>
        /\ ret = consumer.init
        /\ \A i \in 1..Len(log) : log[i].fn # "func"

\* C3: source.take(n).count() returns min(n, L), n = 0 and L = 0 included.
C3_TakeCount ==
    (pc = "returned" /\ Called("count") /\ OnReceiver("take")) =>
        ret = Min(LastOp.n, Len(srcs[1]))

\* The suffix of s that starts at its first element failing p.
RECURSIVE SuffixFromFirstFailing(_, _)
SuffixFromFirstFailing(s, p) ==
    IF s = <<>> THEN <<>>
    ELSE IF p[Head(s)] THEN SuffixFromFirstFailing(Tail(s), p) ELSE s

\* C4: S.skipWhile(pred).collect() is the suffix of S from the first element
\* failing pred, empty when there is none, and never holds undefined.
C4_SkipWhileSuffix ==
    (Called("collect") /\ OnReceiver("skipWhile")) =>
        /\ \A i \in 1..Len(out) : out[i] # Undef
        /\ pc = "returned" => out = SuffixFromFirstFailing(srcs[1], LastOp.pred)

\* The longest prefix of s whose elements all satisfy p.
RECURSIVE LongestPrefix(_, _)
LongestPrefix(s, p) ==
    IF s = <<>> \/ ~p[Head(s)] THEN <<>>
    ELSE <<Head(s)>> \o LongestPrefix(Tail(s), p)

IsPrefix(a, b) == Len(a) <= Len(b) /\ a = SubSeq(b, 1, Len(a))

\* C5: S.takeWhile(pred).collect() terminates with the longest prefix of S
\* satisfying pred: what collect holds never runs past that prefix, and is
\* that prefix when collect returns.
C5_TakeWhilePrefix ==
    (Called("collect") /\ OnReceiver("takeWhile")) =>
        /\ IsPrefix(out, LongestPrefix(srcs[1], LastOp.pred))
        /\ pc = "returned" => out = LongestPrefix(srcs[1], LastOp.pred)

\* f(...f(f(x0, x1), x2)..., xn)
RECURSIVE FoldLeft(_)
FoldLeft(s) ==
    IF Len(s) = 1 THEN s[1]
    ELSE UserFold(FoldLeft(SubSeq(s, 1, Len(s) - 1)), s[Len(s)])

\* C6: without an initializer, reduce(f) and accumulate(f) throw exactly
\* when the sequence is empty, and reduce(f) on x0..xn returns the left
\* fold seeded with x0.
C6_NoInitializer ==
    /\ (Called("reduce") /\ ~consumer.hasInit /\ PlainSource) =>
        /\ pc = "thrown" => srcs[1] = <<>>
        /\ pc = "reduce" => srcs[1] # <<>>
        /\ pc = "returned" => srcs[1] # <<>> /\ ret = FoldLeft(srcs[1])
    /\ (OnReceiver("accumulate") /\ ~LastOp.hasInit) =>
        (pc = "thrown" <=> srcs[1] = <<>>)

C6_Witness ==
    /\ pc = "returned"
    /\ Called("reduce")
    /\ ~consumer.hasInit
    /\ PlainSource
    /\ Len(srcs[1]) = MaxLen
    /\ ret = FoldLeft(srcs[1])

RECURSIVE ScanFrom(_, _)
ScanFrom(a, s) ==
    IF s = <<>> THEN <<>>
    ELSE <<UserFold(a, Head(s))>> \o ScanFrom(UserFold(a, Head(s)), Tail(s))
Scan(s, hasInit, init) ==
    IF hasInit THEN ScanFrom(init, s)
    ELSE IF s = <<>> THEN <<>>
    ELSE <<Head(s)>> \o ScanFrom(Head(s), Tail(s))

\* C8: S.accumulate(f) and S.accumulate(f, init) yield one running fold per
\* element of S, none for an empty S with an initializer.
C8_AccumulateScan ==
    (Collected /\ OnReceiver("accumulate")) =>
        /\ Len(out) = Len(srcs[1])
        /\ out = Scan(srcs[1], LastOp.hasInit, LastOp.init)

RECURSIVE Concat(_)
Concat(arrs) == IF arrs = <<>> THEN <<>> ELSE Head(arrs) \o Concat(Tail(arrs))
IsChain == ops # <<>> /\ LastOp.op \in {"chain", "chainFree"}

\* C9: a collected chain (free function or method) is the concatenation of
\* its inputs in argument order, receiver first.
C9_ChainConcat == (Collected /\ IsChain) => out = Concat(srcs)

C9_Witness ==
    /\ Collected
    /\ IsChain
    /\ Len(srcs) = 3
    /\ \A i \in 1..3 : Len(srcs[i]) >= 1
    /\ Len(out) >= 4

\* C10: while a chain is consumed, a source is opened or pulled from only
\* after every source before it has reported that it is exhausted.
C10_ChainLazy ==
    IsChain =>
        \A j \in 1..Len(srcs) :
            ~Untouched(j) => \A i \in 1..(j - 1) : it.inners[i].st = "done"

C10_Witness ==
    /\ IsChain
    /\ pc = "collect"
    /\ Len(srcs) = 3
    /\ pulls[1] >= 1
    /\ pulls[2] >= 1
    /\ pulls[2] < Len(srcs[2])
    /\ Untouched(3)

\* s cut into consecutive groups of k, the last one possibly shorter.
RECURSIVE ChunksOf(_, _)
ChunksOf(s, k) ==
    IF s = <<>> THEN <<>>
    ELSE IF Len(s) <= k THEN <<s>>
    ELSE <<SubSeq(s, 1, k)>> \o ChunksOf(SubSeq(s, k + 1, Len(s)), k)

\* iter(A)[.inspect(f)].chunks(k).flatten(d)
ChunksFlattened ==
    /\ Len(ops) >= 3
    /\ ops[1].op = "iter"
    /\ ops[Len(ops) - 1].op = "chunks"
    /\ LastOp.op = "flatten"

\* C11: for k >= 1, S.chunks(k) collects to S cut in order into groups of
\* exactly k elements, only the last possibly shorter and none empty (no
\* chunk for an empty S), and S.chunks(k).flatten(1) collects to S.
C11_ChunksPartition ==
    /\ (Collected /\ OnReceiver("chunks") /\ LastOp.n >= 1) =>
        /\ out = ChunksOf(srcs[1], LastOp.n)
        /\ \A i \in 1..Len(out) :
               /\ out[i] # <<>>
               /\ i < Len(out) => Len(out[i]) = LastOp.n
               /\ Len(out[i]) <= LastOp.n
        /\ srcs[1] = <<>> => out = <<>>
    /\ (Collected /\ ChunksFlattened /\ ops[Len(ops) - 1].n >= 1 /\ LastOp.n = 1) =>
        out = srcs[1]

C11_Witness ==
    /\ Collected
    /\ ChunksFlattened
    /\ ops[Len(ops) - 1].n = 2
    /\ LastOp.n = 1
    /\ Len(srcs[1]) = 3
    /\ out = srcs[1]

\* C12: for k >= 1 and S of length n, S.windows(k) collects to the n - k + 1
\* windows [S[i], ..., S[i+k-1]] when n >= k, and to the single window
\* holding all of S when n < k.
C12_WindowsSlide ==
    (Collected /\ OnReceiver("windows")) =>
        LET k == LastOp.n
            n == Len(srcs[1])
        IN  /\ k >= 1
            /\ IF n >= k
               THEN /\ Len(out) = n - k + 1
                    /\ \A i \in 1..Len(out) : out[i] = SubSeq(srcs[1], i, i + k - 1)
               ELSE out = <<srcs[1]>>

C12_Witness ==
    /\ Collected
    /\ OnReceiver("windows")
    /\ LastOp.n = 2
    /\ Len(srcs[1]) = 3
    /\ Len(out) = 2

Unzipped == pc = "returned" /\ Called("unzip") /\ OnReceiver("zip")
Firsts(arrs, m) == [j \in 1..Len(arrs) |-> SubSeq(arrs[j], 1, m)]

RECURSIVE Repeat(_, _)
Repeat(s, n) == IF n = 0 THEN <<>> ELSE s \o Repeat(s, n - 1)

\* C14: for an integer count >= 0, S.cycle(count) collects to S repeated
\* count times (count * len(S) elements, none for count = 0), and S is
\* never traversed a second time: one iterator is opened on it and exactly
\* its elements are pulled (nothing at all for count = 0).
C14_CycleRepeats ==
    (Called("collect") /\ OnReceiver("cycle") /\ LastOp.n # Infinity) =>
        /\ opens[1] <= 1
        /\ pulls[1] <= Len(srcs[1])
        /\ pc = "returned" =>
               /\ out = Repeat(srcs[1], LastOp.n)
               /\ Len(out) = LastOp.n * Len(srcs[1])
               /\ pulls[1] = IF LastOp.n = 0 THEN 0 ELSE Len(srcs[1])
               /\ opens[1] = IF LastOp.n = 0 THEN 0 ELSE 1

C14_Witness ==
    /\ Collected
    /\ OnReceiver("cycle")
    /\ LastOp.n = MaxNum
    /\ Len(srcs[1]) = MaxLen
    /\ Len(out) = MaxNum * MaxLen
    /\ pulls[1] = MaxLen

\* The elements of s at the 0-based positions i with start <= i < end.
Between(s, start, end) == SubSeq(s, start + 1, Min(end, Len(s)))

\* C15: for 0 <= start <= end, S.slice(start, end) collects to the elements
\* of S at positions start <= i < end, which is what skip(start) followed by
\* take(end - start) gives; S.skip(n) collects to S without its first n
\* elements, and skipping past the end of S gives the empty sequence.
C15_SliceRange ==
    /\ (Collected /\ OnReceiver("slice")) =>
        /\ 0 <= LastOp.start /\ LastOp.start <= LastOp.end
        /\ out = Between(srcs[1], LastOp.start, LastOp.end)
        /\ LastOp.start >= Len(srcs[1]) => out = <<>>
        /\ it.k = "take" /\ it.num <= Minus(LastOp.end, LastOp.start)
        /\ it.inner.k = "skip" /\ it.inner.num = LastOp.start
    /\ (Called("collect") /\ OnReceiver("skip")) =>
        /\ pc # "thrown"
        /\ pc = "returned" => out = Between(srcs[1], LastOp.n, Len(srcs[1]))
        /\ (pc = "returned" /\ LastOp.n >= Len(srcs[1])) => out = <<>>

C15_Witness ==
    /\ Collected
    /\ OnReceiver("slice")
    /\ LastOp.start = 1
    /\ LastOp.end = 2
    /\ Len(srcs[1]) = 3
    /\ out = <<srcs[1][2]>>

\* The parameters the documentation calls invalid.
Invalid(call) ==
    CASE call.op \in {"skip", "take", "cycle", "stretch"} -> call.n < 0
      [] call.op \in {"step", "windows"} -> call.n <= 0
      [] call.op = "flatten" -> call.n < 0 \/ call.n > 10
      [] call.op = "slice" -> call.start < 0 \/ call.end < 0 \/ call.start > call.end
      [] OTHER -> FALSE

\* C16: skip, take, step, windows, cycle, stretch, flatten and slice called
\* with an invalid parameter throw at the call: no consumer has run, no
\* source was opened or pulled from, no callback was invoked and the
\* receiver is as it was; with a valid parameter the call does not throw.
C16_EagerValidation ==
    (Len(ops) >= 2 /\ ops[1].op = "iter"
        /\ LastOp.op \in {"skip", "take", "step", "windows", "cycle", "stretch", "flatten", "slice"}) =>
        IF Invalid(LastOp)
        THEN /\ pc = "thrown"
             /\ consumer.kind = "none"
             /\ \A i \in 1..Len(srcs) : Untouched(i)
             /\ log = <<>>
             /\ it = IF Len(ops) = 2 THEN ArrayIter(1) ELSE InspectIter(ArrayIter(1))
        ELSE pc # "thrown"

C16_Witness ==
    /\ pc = "thrown"
    /\ OnReceiver("slice")
    /\ Len(ops) = 3
    /\ LastOp.start > LastOp.end
    /\ LastOp.end >= 0
    /\ srcs[1] # <<>>
    /\ it = InspectIter(ArrayIter(1))

\* s with its array elements unwrapped at most d levels deep.
RECURSIVE Unwrapped(_, _)
Unwrapped(s, d) ==
    IF s = <<>> THEN <<>>
    ELSE (IF Head(s).leaf \/ d = 0 THEN <<Head(s)>> ELSE Unwrapped(Head(s).items, d - 1))
         \o Unwrapped(Tail(s), d)

NestedFlattened == Len(ops) = 2 /\ ops[1].op = "iterNested" /\ LastOp.op = "flatten"

\* C17: flatten(d), 0 <= d <= 10, collects in order to the elements with
\* arrays unwrapped at most d levels deep: an array met after d unwrappings
\* is yielded as it is, a number is yielded as it is at any depth, and
\* flatten(0) yields the elements themselves.
C17_FlattenDepth ==
    /\ (Called("collect") /\ NestedFlattened) =>
        /\ IsPrefix(out, Unwrapped(srcs[1], LastOp.n))
        /\ pc = "returned" => out = Unwrapped(srcs[1], LastOp.n)
        /\ (pc = "returned" /\ LastOp.n = 0) => out = srcs[1]
    /\ (Collected /\ OnReceiver("flatten")) => out = srcs[1]

C17_Witness ==
    /\ Collected
    /\ NestedFlattened
    /\ LastOp.n = 1
    /\ Len(srcs[1]) = 2
    /\ srcs[1][1] = Arr(<<Arr(<<Leaf(0), Leaf(1)>>)>>)
    /\ srcs[1][2] = Leaf(1)
    /\ out = <<Arr(<<Leaf(0), Leaf(1)>>), Leaf(1)>>

Abs(x) == IF x < 0 THEN -x ELSE x
\* a, a + s, a + 2s, ... up to and excluding b, s = 1 if a < b and -1 otherwise
FromTo(a, b) == [i \in 1..Abs(b - a) |-> IF a < b THEN a + (i - 1) ELSE a - (i - 1)]
Ranged == ops # <<>> /\ LastOp.op = "range" /\ Called("collect")

\* C18: range(a, b) collects to the |b - a| values a, a + s, a + 2s, ...
\* with s = +1 if a < b and -1 otherwise, strictly monotonic and excluding
\* b; range(a, a) is empty; range(n) is range(0, n).
C18_RangeValues ==
    /\ (Ranged /\ Len(LastOp.args) = 2) =>
        LET a == LastOp.args[1]
            b == LastOp.args[2]
        IN  /\ IsPrefix(out, FromTo(a, b))
            /\ pc = "returned" => out = FromTo(a, b) /\ Len(out) = Abs(b - a)
            /\ (pc = "returned" /\ a = b) => out = <<>>
            /\ \A i \in 1..Len(out) : out[i] # b
            /\ \A i \in 1..(Len(out) - 1) :
                   IF a < b THEN out[i + 1] = out[i] + 1 ELSE out[i + 1] = out[i] - 1
    /\ (Ranged /\ Len(LastOp.args) = 1) =>
        /\ IsPrefix(out, FromTo(0, LastOp.args[1]))
        /\ pc = "returned" => out = FromTo(0, LastOp.args[1])

C18_Witness ==
    /\ Ranged
    /\ pc = "returned"
    /\ LastOp.args = <<1, -2>>
    /\ out = <<1, 0, -1>>

\* The elements of s, from position i on, whose key no earlier element has.
RECURSIVE FirstOfEachKey(_, _, _)
FirstOfEachKey(s, fn, i) ==
    IF i > Len(s) THEN <<>>
    ELSE (IF \E j \in 1..(i - 1) : KeyOf(fn, s[j]) = KeyOf(fn, s[i]) THEN <<>> ELSE <<s[i]>>)
         \o FirstOfEachKey(s, fn, i + 1)

\* C19: S.unique() and S.uniqueBy(key) collect to one element per key
\* occurring in S, the first element of S with that key, in order of first
\* occurrence; no two collected elements share a key.
C19_UniqueFirsts ==
    (Collected /\ OnReceiver("unique")) =>
        /\ out = FirstOfEachKey(srcs[1], LastOp.fn, 1)
        /\ \A i, j \in 1..Len(out) : i # j => KeyOf(LastOp.fn, out[i]) # KeyOf(LastOp.fn, out[j])
        /\ {KeyOf(LastOp.fn, out[i]) : i \in 1..Len(out)}
               = {KeyOf(LastOp.fn, srcs[1][i]) : i \in 1..Len(srcs[1])}

C19_Witness ==
    /\ Collected
    /\ OnReceiver("unique")
    /\ LastOp.fn = "identity"
    /\ srcs[1] = <<1, 0, 1>>
    /\ out = <<1, 0>>

Matching(s, p) == SelectSeq(s, LAMBDA x : p[x])
Others(s, p) == SelectSeq(s, LAMBDA x : ~p[x])

\* C20: partition(pred) drains the sequence and returns [matches,
\* nonMatches]: the elements satisfying pred and the others, each in their
\* original order, every source element in exactly one of the two.
C20_PartitionSplits ==
    (pc = "returned" /\ Called("partition") /\ PlainSource) =>
        /\ Len(out) = 2
        /\ out[1] = Matching(srcs[1], consumer.pred)
        /\ out[2] = Others(srcs[1], consumer.pred)
        /\ Len(out[1]) + Len(out[2]) = Len(srcs[1])
        /\ pulls[1] = Len(srcs[1])

C20_Witness ==
    /\ pc = "returned"
    /\ Called("partition")
    /\ PlainSource
    /\ srcs[1] = <<1, 0, 1>>
    /\ out = <<<<1, 1>>, <<0>>>>

\* The first position of S whose element the predicate accepts, 0 for none.
FirstMatch(S, p) ==
    LET I == {i \in 1..Len(S) : CallPred(p, S[i], i - 1)}
    IN  IF I = {} THEN 0 ELSE MinOf(I)
Searched(kind) == pc = "returned" /\ consumer.kind = kind /\ past = <<>> /\ PlainSource

\* C21: on iter(S), find(pred) returns the first element pred accepts,
\* position(pred) its zero-based index, nth(n) the element at index n and
\* first() the element at index 0; each returns undefined when there is no
\* such element (no match, n < 0, n >= len(S), S empty), and none throws.
C21_SearchOrUndefined ==
    /\ Searched("find") =>
        ret = IF FirstMatch(srcs[1], consumer.pred) = 0 THEN Undef
              ELSE srcs[1][FirstMatch(srcs[1], consumer.pred)]
    /\ Searched("position") =>
        ret = IF FirstMatch(srcs[1], consumer.pred) = 0 THEN Undef
              ELSE FirstMatch(srcs[1], consumer.pred) - 1
    /\ Searched("nth") =>
        ret = IF consumer.n >= 0 /\ consumer.n < Len(srcs[1])
              THEN srcs[1][consumer.n + 1] ELSE Undef
    /\ Searched("first") =>
        ret = IF srcs[1] # <<>> THEN srcs[1][1] ELSE Undef
    /\ (consumer.kind \in {"find", "position", "nth", "first"}) => pc # "thrown"

C21_Witness ==
    /\ Searched("find")
    /\ FirstMatch(srcs[1], consumer.pred) = 2
    /\ ret = srcs[1][2]
    /\ ret # srcs[1][1]

\* Every pair of an element of S with an element of T, row by row.
Pairs(S, T) ==
    [n \in 1..(Len(S) * Len(T)) |->
        <<S[((n - 1) \div Len(T)) + 1], T[((n - 1) % Len(T)) + 1]>>]
\* [...range(end)] and [...range(start, end)]
RangeArray(args) ==
    Spread(RangeIter(RangeArgs(args).start, RangeArgs(args).end), Env, <<>>).arr

\* C22: S.nest(T) collects to the pairs [x, y], x over S in order and, for
\* each x, y over T in order (row-major); S.nest(end) and S.nest(start, end)
\* collect to the same pairs as S.nest(range(end)) and
\* S.nest(range(start, end)), which are those of S with the range's values.
C22_NestRowMajor ==
    /\ (Collected /\ OnReceiver("nest")) => out = Pairs(srcs[1], srcs[2])
    /\ (Collected /\ OnReceiver("nestOfRange")) =>
        out = Pairs(srcs[1], RangeArray(LastOp.args))
    /\ (Collected /\ OnReceiver("nestRange")) =>
        /\ out = Pairs(srcs[1], RangeArray(LastOp.args))
        /\ out = Pairs(srcs[1], FromTo(LastOp.start, LastOp.end))

C22_Witness ==
    /\ Collected
    /\ OnReceiver("nestRange")
    /\ Len(LastOp.args) = 2
    /\ LastOp.start = 1
    /\ Len(srcs[1]) >= 2
    /\ Len(out) >= 4
    /\ out[1][1] # out[Len(out)][1]

\* iter(S).inspect(f).map(g).inspect(h) with collect() called on it
Staged ==
    /\ Len(ops) = 4
    /\ ops[1].op = "iter" /\ ops[2].op = "inspect" /\ ops[3].op = "map" /\ ops[4].op = "inspect"
    /\ Called("collect")
\* f(x), g(x), h(g(x)) for the k-th element x of S
StageCalls(S, k) ==
    <<[fn |-> "inspect", arg |-> S[k]], [fn |-> "map", arg |-> S[k]],
      [fn |-> "inspectMapped", arg |-> UserMap("map", S[k], k - 1)]>>

\* C23: while iter(S).inspect(f).map(g).inspect(h) is collected, the callbacks
\* run in the order f(x0), g(x0), h(g(x0)), f(x1), g(x1), h(g(x1)), ...: an
\* element is pulled from S only when the one before it has passed every
\* stage, and each inspect hands its element on unchanged, so that the
\* result holds g(x) for every x of S.
C23_StagesInterleave ==
    Staged =>
        /\ Len(log) = 3 * Len(out)
        /\ pulls[1] = Len(out)
        /\ Len(out) <= Len(srcs[1])
        /\ \A k \in 1..Len(out) :
            /\ SubSeq(log, 3 * k - 2, 3 * k) = StageCalls(srcs[1], k)
            /\ out[k] = UserMap("map", srcs[1][k], k - 1)
        /\ pc = "returned" => Len(out) = Len(srcs[1])

C23_Witness ==
    /\ Staged
    /\ pc = "returned"
    /\ Len(out) >= 2
    /\ Len(log) = 6
    /\ log[4].fn = "inspect"
    /\ log[3].fn = "inspectMapped"
    /\ log[3].arg # log[1].arg

\* iter(S) itself, no adapter called on it
Bare == Len(ops) = 1 /\ ops[1].op = "iter"

\* C24: on iter(S) over an array S, every consumer call (collect, nth, first,
\* last, find, position, some, every, reduce, count, partition, unzip) starts
\* from the first element of S whatever was called before: a call repeated
\* on the same object returns what it returned the first time, made on the
\* fresh iter(S), and a collect() made after any other call returns all of S.
C24_ArrayRestarts ==
    Bare =>
        /\ (steps = 0 /\ pc \notin {"idle", "built"}) => it = ArrayIter(1)
        /\ \A i \in 1..Len(past) :
            (pc = "returned" /\ past[i].consumer = consumer) =>
                ret = past[i].ret /\ out = past[i].out
        /\ (pc = "returned" /\ consumer.kind = "collect") => out = srcs[1]

C24_Witness ==
    /\ Bare
    /\ pc = "returned"
    /\ Len(past) = 1
    /\ past[1].consumer.kind = "nth"
    /\ Len(srcs[1]) = 2
    /\ past[1].ret = srcs[1][2]
    /\ consumer.kind = "collect"
    /\ Len(out) = 2
    /\ opens[1] = 2

\* C25: an adapter call t = s.op(...) on s = iter(S), takeWhile included,
\* leaves the receiver s as it was: s.collect() still returns every element
\* of S.
C25_ReceiverUntouched ==
    (pc = "returned" /\ consumer.kind = "collectReceiver") => out = srcs[1]

\* The sequence is range(), once(), chain(), zip() or the result of an adapter.
OneShot == ops # <<>> /\ ~(Len(ops) = 1 /\ ops[1].op \in {"iter", "iterNested"})
\* The call before this one ran its loop to the end of the sequence.
Drained ==
    /\ past # <<>>
    /\ past[Len(past)].consumer.kind \in {"collect", "reduce", "count", "last", "partition", "unzip"}

\* C26: a sequence over a one-shot source (range(), once(), chain(), zip(),
\* the result of an adapter) yields its elements on the first full traversal
\* only: a collect() made after a consumer has drained it returns [].
C26_OneShotOnce ==
    (OneShot /\ Drained /\ consumer.kind = "collect") => out = <<>>

\* C27: while S.take(n) is collected, at most n elements are pulled from S:
\* the (n+1)-th is never requested, and an inspect callback between S and
\* take has run exactly min(n, len(S)) times when collect() returns.
C27_TakePullsAtMostN ==
    (Called("collect") /\ OnReceiver("take")) =>
        /\ pulls[1] <= LastOp.n
        /\ (pc = "returned" /\ Len(ops) = 3) => Len(log) = Min(LastOp.n, Len(srcs[1]))

\* C28: while S.cycle(count) is collected, for a finite S and count >= 0 or
\* the default unbounded count, every pull completes in finitely many steps
\* of the generator: over a non-empty S at most two steps pass without a
\* yield, and over an empty S the generator reports exhaustion, so that
\* collect() has returned before the step limit.
C28_CycleTerminates ==
    (Called("collect") /\ OnReceiver("cycle")) =>
        IF srcs[1] = <<>> THEN pc = "returned" \/ steps < StepLimit
        ELSE steps <= 3 * (Len(out) + 1)

\* How many elements of S the call c has to look at: up to and including
\* the one it stops at, or all of S.
StopsAfter(c, S) ==
    IF c.kind \in {"nth", "first"}
    THEN IF c.n < 0 THEN 0 ELSE Min(c.n + 1, Len(S))
    ELSE LET I == {i \in 1..Len(S) : Stops(c, S[i], i - 1)}
         IN  IF I = {} THEN Len(S) ELSE MinOf(I)
EarlyStoppers == {"nth", "first", "find", "position", "some", "every"}
\* iter(S).inspect(f): a one-shot sequence over the elements of S
InspectedOnly == Len(ops) = 2 /\ OnReceiver("inspect")

\* C29: on the one-shot sequence iter(S).inspect(f), nth, first, find,
\* position, some and every consume the elements of S up to and including
\* the one they stop at and no more, and leave the rest available: a
\* collect() made next returns exactly the elements after that one.
C29_RestAvailable ==
    /\ (InspectedOnly /\ pc = "returned" /\ past = <<>> /\ consumer.kind \in EarlyStoppers) =>
        pulls[1] = StopsAfter(consumer, srcs[1])
    /\ (InspectedOnly /\ pc = "returned" /\ Len(past) = 1 /\ consumer.kind = "collect"
            /\ past[1].consumer.kind \in EarlyStoppers) =>
        out = SubSeq(srcs[1], StopsAfter(past[1].consumer, srcs[1]) + 1, Len(srcs[1]))

\* C30: when a zip (free function or method) has been collected to m
\* tuples, exactly m elements have been pulled from each of its inputs: no
\* element at an index >= m of a longer input is pulled and dropped.
C30_ZipPullsExactly ==
    (Collected /\ IsZip) => \A i \in 1..Len(srcs) : pulls[i] = Len(out)
====
